---- MODULE Spec2Model ----
(***************************************************************************)
(* State-machine model of electron::OpaqueFrameView                        *)
(* (shell/browser/ui/views/opaque_frame_view.{h,cc}): the frame geometry,  *)
(* the control buttons and placeholder container, hit-testing, the window  *)
(* controls overlay rectangle and the layout pass.                         *)
(***************************************************************************)
EXTENDS Integers, Sequences, FiniteSets, TLC

(***************************************************************************)
(* Bounds of the model.                                                    *)
(***************************************************************************)
\* Points and synthetic rectangles of the hit test live on the grid
\* (0..MaxCoord) x (0..MaxCoord).
MaxCoord == 1
\* Consecutive layout passes are counted up to MaxPasses.
MaxPasses == 2

(***************************************************************************)
(* Program constants.                                                      *)
(***************************************************************************)
kFrameBorderThickness == 4
kNonClientExtraTopThickness == 1
kContentEdgeShadowThickness == 2
kTopFrameEdgeThickness == 2
kSideFrameEdgeThickness == 1
kCaptionButtonBottomPadding == 3
kVerticalPadding == 2
kIconMinimumSize == 16
\* Not defined in the reviewed sources: the caption button height and the
\* frame shadow thickness used by DefaultCaptionButtonY.
kCaptionButtonHeight == 18
kFrameShadowThickness == 1

(***************************************************************************)
(* Value types: gfx::Rect, gfx::Insets, gfx::Point.                        *)
(***************************************************************************)
Max(a, b) == IF a >= b THEN a ELSE b

\* gfx::Rect(x, y, w, h): gfx::Size clamps a negative extent to 0.
Rect(x, y, w, h) == [x |-> x, y |-> y, w |-> Max(0, w), h |-> Max(0, h)]

\* gfx::Rect::Contains(point): half-open on the right and bottom edges.
Contains(r, p) ==
    /\ p[1] >= r.x /\ p[1] < r.x + r.w
    /\ p[2] >= r.y /\ p[2] < r.y + r.h

\* gfx::Insets(all) and gfx::Insets().
Insets(t, l, b, r) == [top |-> t, left |-> l, bottom |-> b, right |-> r]
UniformInsets(n) == Insets(n, n, n, n)
ZeroInsets == Insets(0, 0, 0, 0)
InsetsWidth(i) == i.left + i.right

\* views::View::GetMirroredBounds / GetMirroredRect: in a right-to-left UI a
\* rectangle is reflected about the vertical axis of the enclosing view.
MirroredRect(r, view_width, rtl) ==
    IF rtl THEN [r EXCEPT !.x = view_width - r.x - r.w] ELSE r

\* views::View::SetBounds(x, y, w, h) clamps the extent to be nonnegative.
SetBounds(x, y, w, h) == Rect(x, y, Max(0, w), Max(0, h))

(***************************************************************************)
(* Enumerations.                                                           *)
(***************************************************************************)
WindowModes == {"Restored", "Maximized", "Fullscreen"}
\* views::Button::ButtonState, without the STATE_COUNT sentinel.
ButtonStates == {"STATE_NORMAL", "STATE_HOVERED", "STATE_PRESSED", "STATE_DISABLED"}
\* The states pointer events put a button in; nothing disables a button.
PointerButtonStates == {"STATE_NORMAL", "STATE_HOVERED", "STATE_PRESSED"}
ButtonNames == {"minimize", "maximize", "restore", "close"}
\* views::FrameButton tokens of the leading/trailing order.
FrameButtons == {"kMinimize", "kMaximize", "kClose"}
DefaultLeading == << >>
DefaultTrailing == <<"kMinimize", "kMaximize", "kClose">>
\* Orders the platform provider may report: the default, the swapped order of
\* the example, and one with a duplicate and an omission.
ProviderOrders ==
    { <<DefaultLeading, DefaultTrailing>>,
      <<(<<"kClose">>), (<<"kMinimize", "kMaximize">>)>>,
      <<(<<"kClose", "kClose">>), (<<"kMinimize">>)>> }
\* window()->overlay_button_color() of the current theme.
OverlayColors == {"light", "dark"}
\* gfx::FontList().GetHeight(): below and above the 16 px icon minimum.
FontHeights == {12, 20}
\* Results of the base FramelessView::NonClientHitTest: it never reports a
\* caption button, only the client area, the default caption or a resize border.
BaseHitResults == {"HTCLIENT", "HTCAPTION"}
\* Outcomes of dereferencing a null raw_ptr: the process dies, or the build
\* carries on as if the call had not happened.
UBOutcomes == {"crash", "continue"}

\* A null raw_ptr (raw_ptr is zero-initialised).
nullptr == [null |-> TRUE]
\* A views::ImageButton as CreateImageButton leaves it: visible, in the normal
\* state, with empty bounds.
NewButton == [visible |-> TRUE, state |-> "STATE_NORMAL", bounds |-> Rect(0, 0, 0, 0)]
\* A CaptionButtonPlaceholderContainer as AddChildView leaves it.
NewContainer == [bounds |-> Rect(0, 0, 0, 0), background |-> "none"]

Range(s) == {s[i] : i \in 1..Len(s)}

(***************************************************************************)
(* State.                                                                  *)
(***************************************************************************)
VARIABLES
    customDraw,                 \* ShouldCustomDrawSystemTitlebar(), fixed per window
    mode,                       \* the widget's window mode
    inited,                     \* Init has run
    crashed,                    \* the process died on a null dereference
    nullUse,                    \* what the last operation dereferenced while null
    minimize_button_,
    maximize_button_,
    restore_button_,
    close_button_,
    leading_buttons_,
    trailing_buttons_,
    placed_leading_button_,
    placed_trailing_button_,
    available_space_leading_x_,
    available_space_trailing_x_,
    minimum_size_for_buttons_,
    paint_subscribed,           \* paint_as_active_changed_subscription_ is set
    caption_button_placeholder_container_,
    ret                         \* the last operation, its inputs and its result

buttonVars == <<minimize_button_, maximize_button_, restore_button_, close_button_>>
orderVars == <<leading_buttons_, trailing_buttons_>>
cursorVars == <<placed_leading_button_, placed_trailing_button_,
                available_space_leading_x_, available_space_trailing_x_,
                minimum_size_for_buttons_>>
faultVars == <<crashed, nullUse>>
vars == <<customDraw, mode, inited, crashed, nullUse, minimize_button_,
          maximize_button_, restore_button_, close_button_, leading_buttons_,
          trailing_buttons_, placed_leading_button_, placed_trailing_button_,
          available_space_leading_x_, available_space_trailing_x_,
          minimum_size_for_buttons_, paint_subscribed,
          caption_button_placeholder_container_, ret>>

ButtonOf(name) ==
    CASE name = "minimize" -> minimize_button_
      [] name = "maximize" -> maximize_button_
      [] name = "restore" -> restore_button_
      [] name = "close" -> close_button_

\* The visual state of each button that exists.
ButtonStatesNow ==
    [name \in {n \in ButtonNames : ButtonOf(n) # nullptr} |-> ButtonOf(name).state]

(***************************************************************************)
(* Geometry model.                                                         *)
(***************************************************************************)
ShouldCustomDrawSystemTitlebar == customDraw

IsMaximized == mode = "Maximized"
IsFullscreen == mode = "Fullscreen"

IsFrameCondensed == IsMaximized \/ IsFullscreen

RestoredFrameBorderInsets == UniformInsets(kFrameBorderThickness)

RestoredFrameEdgeInsets ==
    Insets(kTopFrameEdgeThickness, kSideFrameEdgeThickness,
           kSideFrameEdgeThickness, kSideFrameEdgeThickness)

NonClientExtraTopThickness == kNonClientExtraTopThickness

\* A variant of FrameBorderInsets that ignores the restored flag.
FrameBorderInsets_IgnoresRestored(restored) ==
    IF IsFrameCondensed THEN ZeroInsets ELSE RestoredFrameBorderInsets

FrameBorderInsets(restored) ==
    IF ~restored /\ IsFrameCondensed THEN ZeroInsets ELSE RestoredFrameBorderInsets

\* A variant of FrameTopBorderThickness that never adds the extra thickness.
FrameTopBorderThickness_NoExtra(restored) ==
    FrameBorderInsets(restored).top

FrameTopBorderThickness(restored) ==
    LET thickness == FrameBorderInsets(restored).top
    IN  IF (restored \/ ~IsFrameCondensed) /\ thickness > 0
          THEN thickness + NonClientExtraTopThickness
          ELSE thickness

\* Not in the reviewed sources: the edge insets collapse like the border insets.
FrameEdgeInsets(restored) ==
    IF ~restored /\ IsFrameCondensed THEN ZeroInsets ELSE RestoredFrameEdgeInsets

\* Not in the reviewed sources: condensed buttons start at the frame top.
DefaultCaptionButtonY(restored) ==
    IF ~restored /\ IsFrameCondensed
      THEN FrameBorderInsets(FALSE).top
      ELSE kFrameShadowThickness

GetIconSize(font_height) == Max(font_height, kIconMinimumSize)

NonClientTopHeight(restored, font_height) ==
    LET icon_height ==
            FrameEdgeInsets(restored).top + GetIconSize(font_height) + kVerticalPadding
        caption_button_height ==
            DefaultCaptionButtonY(restored) + kCaptionButtonHeight
                + kCaptionButtonBottomPadding
    IN  Max(icon_height, caption_button_height) + kContentEdgeShadowThickness

(***************************************************************************)
(* Initial state: the object as the constructor and the member             *)
(* initialisers leave it.                                                  *)
(***************************************************************************)
Init ==
    /\ customDraw \in BOOLEAN
    /\ mode = "Restored"
    /\ inited = FALSE
    /\ crashed = FALSE
    /\ nullUse = "none"
    /\ minimize_button_ = nullptr
    /\ maximize_button_ = nullptr
    /\ restore_button_ = nullptr
    /\ close_button_ = nullptr
    /\ leading_buttons_ = DefaultLeading
    /\ trailing_buttons_ = DefaultTrailing
    /\ placed_leading_button_ = FALSE
    /\ placed_trailing_button_ = FALSE
    /\ available_space_leading_x_ = 0
    /\ available_space_trailing_x_ = 0
    /\ minimum_size_for_buttons_ = 0
    /\ paint_subscribed = FALSE
    /\ caption_button_placeholder_container_ = nullptr
    /\ ret = [op |-> "constructor"]

(***************************************************************************)
(* Inputs the operations read from their collaborators.                    *)
(***************************************************************************)
\* Points of the hit test, and the width of the view they are mirrored in.
Points == (0..MaxCoord) \X (0..MaxCoord)
GridWidth == MaxCoord + 1
\* width() of the view when the overlay rectangle is computed.
ViewWidths == {0, 100, 800}
\* window()->titlebar_overlay_height(): 0 means "not specified".
OverlayHeights == {0, 40}

(***************************************************************************)
(* Init and InitButtons.  Both are public and neither is guarded against a *)
(* second call: each call makes new views and points the members at them.  *)
(* The views of an earlier call stay children of the frame view, but no    *)
(* member points at them and no operation of the class reads the child     *)
(* list, so they are not part of the state.                                *)
(***************************************************************************)
\* What InitButtons does to the four button members.
InitButtons ==
    /\ minimize_button_' = NewButton
    /\ maximize_button_' = NewButton
    /\ restore_button_' = NewButton
    /\ close_button_' = NewButton

\* A call of the public InitButtons, in either title bar case, before or after
\* Init (it binds frame() without dereferencing it).
InitButtonsOp ==
    /\ ~crashed
    /\ InitButtons
    /\ nullUse' = "none"
    /\ ret' = [op |-> "InitButtons"]
    /\ UNCHANGED <<customDraw, mode, inited, crashed, orderVars, cursorVars,
                   paint_subscribed, caption_button_placeholder_container_>>

\* A variant of Init that creates the container and the buttons in the other
\* title bar case.
OpaqueFrameView_Init_OtherCase ==
    /\ ~crashed
    /\ inited' = TRUE
    /\ IF ~ShouldCustomDrawSystemTitlebar
         THEN UNCHANGED <<caption_button_placeholder_container_,
                          paint_subscribed, buttonVars>>
         ELSE /\ caption_button_placeholder_container_' = NewContainer
              /\ paint_subscribed' = TRUE
              /\ InitButtons
    /\ nullUse' = "none"
    /\ ret' = [op |-> "Init"]
    /\ UNCHANGED <<customDraw, mode, crashed, orderVars, cursorVars>>

OpaqueFrameView_Init ==
    /\ ~crashed
    /\ inited' = TRUE
    /\ IF ShouldCustomDrawSystemTitlebar
         THEN UNCHANGED <<caption_button_placeholder_container_,
                          paint_subscribed, buttonVars>>
         ELSE /\ caption_button_placeholder_container_' = NewContainer
              /\ paint_subscribed' = TRUE
              /\ InitButtons
    /\ nullUse' = "none"
    /\ ret' = [op |-> "Init"]
    /\ UNCHANGED <<customDraw, mode, crashed, orderVars, cursorVars>>

(***************************************************************************)
(* Events of the collaborators: the widget changes its window mode, the    *)
(* toolkit changes a button's visual state on hover/press.                 *)
(***************************************************************************)
SetWindowMode ==
    /\ inited /\ ~crashed
    /\ \E m \in WindowModes \ {mode} : mode' = m
    /\ nullUse' = "none"
    /\ ret' = [op |-> "SetWindowMode"]
    /\ UNCHANGED <<customDraw, inited, crashed, buttonVars, orderVars, cursorVars,
                   paint_subscribed, caption_button_placeholder_container_>>

SetButtonState ==
    /\ inited /\ ~crashed
    /\ \E name \in ButtonNames, s \in PointerButtonStates :
          /\ ButtonOf(name) # nullptr
          /\ ButtonOf(name).state # s
          /\ minimize_button_' = IF name = "minimize"
                THEN [minimize_button_ EXCEPT !.state = s] ELSE minimize_button_
          /\ maximize_button_' = IF name = "maximize"
                THEN [maximize_button_ EXCEPT !.state = s] ELSE maximize_button_
          /\ restore_button_' = IF name = "restore"
                THEN [restore_button_ EXCEPT !.state = s] ELSE restore_button_
          /\ close_button_' = IF name = "close"
                THEN [close_button_ EXCEPT !.state = s] ELSE close_button_
    /\ nullUse' = "none"
    /\ ret' = [op |-> "SetButtonState"]
    /\ UNCHANGED <<customDraw, mode, inited, crashed, orderVars, cursorVars,
                   paint_subscribed, caption_button_placeholder_container_>>

(***************************************************************************)
(* NonClientHitTest.                                                       *)
(***************************************************************************)
\* A variant of HitTestCaptionButton that forgets the visibility test.
HitTestCaptionButton_NoVisible(button, point, view_width, rtl) ==
    /\ button # nullptr
    /\ Contains(MirroredRect(button.bounds, view_width, rtl), point)

HitTestCaptionButton(button, point, view_width, rtl) ==
    /\ button # nullptr
    /\ button.visible
    /\ Contains(MirroredRect(button.bounds, view_width, rtl), point)

\* A variant of NonClientHitTest that tests the minimize button first.
NonClientHitTest_MinFirst(point, wco_enabled, view_width, rtl, base) ==
    IF ShouldCustomDrawSystemTitlebar
         /\ HitTestCaptionButton(minimize_button_, point, view_width, rtl)
      THEN "HTMINBUTTON"
    ELSE IF ShouldCustomDrawSystemTitlebar
         /\ HitTestCaptionButton(close_button_, point, view_width, rtl)
      THEN "HTCLOSE"
    ELSE IF ShouldCustomDrawSystemTitlebar
         /\ HitTestCaptionButton(restore_button_, point, view_width, rtl)
      THEN "HTMAXBUTTON"
    ELSE IF ShouldCustomDrawSystemTitlebar
         /\ HitTestCaptionButton(maximize_button_, point, view_width, rtl)
      THEN "HTMAXBUTTON"
    ELSE IF ShouldCustomDrawSystemTitlebar
         /\ wco_enabled
         /\ caption_button_placeholder_container_ # nullptr
         /\ Contains(MirroredRect(caption_button_placeholder_container_.bounds,
                                  view_width, rtl), point)
      THEN "HTCAPTION"
    ELSE base

NonClientHitTest(point, wco_enabled, view_width, rtl, base) ==
    IF ShouldCustomDrawSystemTitlebar
         /\ HitTestCaptionButton(close_button_, point, view_width, rtl)
      THEN "HTCLOSE"
    ELSE IF ShouldCustomDrawSystemTitlebar
         /\ HitTestCaptionButton(restore_button_, point, view_width, rtl)
      THEN "HTMAXBUTTON"
    ELSE IF ShouldCustomDrawSystemTitlebar
         /\ HitTestCaptionButton(maximize_button_, point, view_width, rtl)
      THEN "HTMAXBUTTON"
    ELSE IF ShouldCustomDrawSystemTitlebar
         /\ HitTestCaptionButton(minimize_button_, point, view_width, rtl)
      THEN "HTMINBUTTON"
    ELSE IF ShouldCustomDrawSystemTitlebar
         /\ wco_enabled
         /\ caption_button_placeholder_container_ # nullptr
         /\ Contains(MirroredRect(caption_button_placeholder_container_.bounds,
                                  view_width, rtl), point)
      THEN "HTCAPTION"
    ELSE base

NonClientHitTestOp ==
    /\ inited /\ ~crashed
    /\ \E point \in Points, wco_enabled \in BOOLEAN, rtl \in BOOLEAN,
          base \in BaseHitResults :
          ret' = [op |-> "NonClientHitTest", point |-> point,
                  wco_enabled |-> wco_enabled, view_width |-> GridWidth,
                  rtl |-> rtl, base |-> base,
                  val |-> NonClientHitTest(point, wco_enabled, GridWidth, rtl, base)]
    /\ nullUse' = "none"
    /\ UNCHANGED <<customDraw, mode, inited, crashed, buttonVars, orderVars,
                   cursorVars, paint_subscribed,
                   caption_button_placeholder_container_>>

(***************************************************************************)
(* ResetWindowControls.                                                    *)
(***************************************************************************)
\* A variant of ResetWindowControls that resets the close button as well.
ResetWindowControls_AlsoClose ==
    /\ inited /\ ~crashed
    /\ IF restore_button_ = nullptr
         THEN /\ \E outcome \in UBOutcomes : crashed' = (outcome = "crash")
              /\ nullUse' = "button"
              /\ UNCHANGED buttonVars
         ELSE /\ restore_button_' = [restore_button_ EXCEPT !.state = "STATE_NORMAL"]
              /\ minimize_button_' = [minimize_button_ EXCEPT !.state = "STATE_NORMAL"]
              /\ maximize_button_' = [maximize_button_ EXCEPT !.state = "STATE_NORMAL"]
              /\ close_button_' = [close_button_ EXCEPT !.state = "STATE_NORMAL"]
              /\ nullUse' = "none"
              /\ UNCHANGED crashed
    /\ ret' = [op |-> "ResetWindowControls", before |-> ButtonStatesNow]
    /\ UNCHANGED <<customDraw, mode, inited, orderVars, cursorVars,
                   paint_subscribed, caption_button_placeholder_container_>>

\* restore_button_ is dereferenced first; the buttons are only ever created
\* together (InitButtons), so it is null exactly when the other two are.
ResetWindowControls ==
    /\ inited /\ ~crashed
    /\ IF restore_button_ = nullptr
         THEN /\ \E outcome \in UBOutcomes : crashed' = (outcome = "crash")
              /\ nullUse' = "button"
              /\ UNCHANGED buttonVars
         ELSE /\ restore_button_' = [restore_button_ EXCEPT !.state = "STATE_NORMAL"]
              /\ minimize_button_' = [minimize_button_ EXCEPT !.state = "STATE_NORMAL"]
              /\ maximize_button_' = [maximize_button_ EXCEPT !.state = "STATE_NORMAL"]
              /\ close_button_' = close_button_
              /\ nullUse' = "none"
              /\ UNCHANGED crashed
    /\ ret' = [op |-> "ResetWindowControls", before |-> ButtonStatesNow]
    /\ UNCHANGED <<customDraw, mode, inited, orderVars, cursorVars,
                   paint_subscribed, caption_button_placeholder_container_>>

(***************************************************************************)
(* OnWindowButtonOrderingChange.                                           *)
(***************************************************************************)
\* A variant of OnWindowButtonOrderingChange that appends the provider's
\* sequences to the current ones.
OnWindowButtonOrderingChange_Merging ==
    /\ inited /\ ~crashed
    /\ \E order \in ProviderOrders :
          /\ leading_buttons_' = leading_buttons_ \o order[1]
          /\ trailing_buttons_' = order[2]
          /\ ret' = [op |-> "OnWindowButtonOrderingChange",
                     provider_leading |-> order[1],
                     provider_trailing |-> order[2]]
    /\ nullUse' = "none"
    /\ UNCHANGED <<customDraw, mode, inited, crashed, buttonVars, cursorVars,
                   paint_subscribed, caption_button_placeholder_container_>>

OnWindowButtonOrderingChange ==
    /\ inited /\ ~crashed
    /\ \E order \in ProviderOrders :
          /\ leading_buttons_' = order[1]
          /\ trailing_buttons_' = order[2]
          /\ ret' = [op |-> "OnWindowButtonOrderingChange",
                     provider_leading |-> order[1],
                     provider_trailing |-> order[2]]
    /\ nullUse' = "none"
    /\ UNCHANGED <<customDraw, mode, inited, crashed, buttonVars, cursorVars,
                   paint_subscribed, caption_button_placeholder_container_>>

(***************************************************************************)
(* Layout.                                                                 *)
(***************************************************************************)
\* The four arguments Layout passes to the placeholder container's SetBounds.
LayoutContainerArgs(font_height) ==
    LET height == NonClientTopHeight(FALSE, font_height)
        container_x == IF placed_trailing_button_
                         THEN available_space_trailing_x_ ELSE 0
        insets == FrameBorderInsets(FALSE)
    IN  [x |-> container_x, y |-> insets.top,
         w |-> minimum_size_for_buttons_ - InsetsWidth(insets),
         h |-> height - insets.top]

\* A variant of LayoutContainerBounds that advances from the previous bounds.
LayoutContainerBounds_Accumulating(font_height) ==
    LET args == LayoutContainerArgs(font_height)
    IN  SetBounds(caption_button_placeholder_container_.bounds.x + 1, args.y,
                  args.w, args.h)

\* The bounds Layout gives the placeholder container.
LayoutContainerBounds(font_height) ==
    LET args == LayoutContainerArgs(font_height)
    IN  SetBounds(args.x, args.y, args.w, args.h)

\* How many layout passes have run in a row, this one included.
LayoutPass ==
    IF ret.op = "Layout"
      THEN (IF ret.pass < MaxPasses THEN ret.pass + 1 ELSE MaxPasses)
      ELSE 1

\* A variant of Layout that leaves the cursor of the pass behind: a trailing
\* button placed at x = 662 and a button strip 138 wide.
Layout_LeavesCursor ==
    /\ inited /\ ~crashed
    /\ IF ShouldCustomDrawSystemTitlebar
         THEN \E font_height \in FontHeights :
                IF caption_button_placeholder_container_ = nullptr
                  THEN \E outcome \in UBOutcomes :
                       /\ crashed' = (outcome = "crash")
                       /\ nullUse' = "container"
                       /\ UNCHANGED caption_button_placeholder_container_
                       /\ ret' = [op |-> "Layout", pass |-> LayoutPass, custom |-> TRUE,
                                  font_height |-> font_height,
                                  insets |-> FrameBorderInsets(FALSE),
                                  args |-> LayoutContainerArgs(font_height),
                                  base_layout |-> (outcome = "continue")]
                  ELSE /\ caption_button_placeholder_container_' =
                              [caption_button_placeholder_container_ EXCEPT
                                  !.bounds = LayoutContainerBounds(font_height)]
                       /\ nullUse' = "none"
                       /\ UNCHANGED crashed
                       /\ ret' = [op |-> "Layout", pass |-> LayoutPass, custom |-> TRUE,
                                  font_height |-> font_height,
                                  insets |-> FrameBorderInsets(FALSE),
                                  args |-> LayoutContainerArgs(font_height),
                                  base_layout |-> TRUE]
         ELSE /\ nullUse' = "none"
              /\ ret' = [op |-> "Layout", pass |-> LayoutPass, custom |-> FALSE,
                         base_layout |-> TRUE]
              /\ UNCHANGED <<crashed, caption_button_placeholder_container_>>
    /\ placed_trailing_button_' = TRUE
    /\ available_space_trailing_x_' = 662
    /\ minimum_size_for_buttons_' = 138
    /\ UNCHANGED <<customDraw, mode, inited, buttonVars, orderVars,
                   placed_leading_button_, available_space_leading_x_,
                   paint_subscribed>>

\* The base layout (LayoutSuperclass<FramelessView>) touches no state of this
\* view; it does not run when the process died before it.  ret.args are the
\* arguments of SetBounds, ret.base_layout whether the base layout ran.
Layout ==
    /\ inited /\ ~crashed
    /\ IF ShouldCustomDrawSystemTitlebar
         THEN \E font_height \in FontHeights :
                IF caption_button_placeholder_container_ = nullptr
                  THEN \E outcome \in UBOutcomes :
                       /\ crashed' = (outcome = "crash")
                       /\ nullUse' = "container"
                       /\ UNCHANGED caption_button_placeholder_container_
                       /\ ret' = [op |-> "Layout", pass |-> LayoutPass, custom |-> TRUE,
                                  font_height |-> font_height,
                                  insets |-> FrameBorderInsets(FALSE),
                                  args |-> LayoutContainerArgs(font_height),
                                  base_layout |-> (outcome = "continue")]
                  ELSE /\ caption_button_placeholder_container_' =
                              [caption_button_placeholder_container_ EXCEPT
                                  !.bounds = LayoutContainerBounds(font_height)]
                       /\ nullUse' = "none"
                       /\ UNCHANGED crashed
                       /\ ret' = [op |-> "Layout", pass |-> LayoutPass, custom |-> TRUE,
                                  font_height |-> font_height,
                                  insets |-> FrameBorderInsets(FALSE),
                                  args |-> LayoutContainerArgs(font_height),
                                  base_layout |-> TRUE]
         ELSE /\ nullUse' = "none"
              /\ ret' = [op |-> "Layout", pass |-> LayoutPass, custom |-> FALSE,
                         base_layout |-> TRUE]
              /\ UNCHANGED <<crashed, caption_button_placeholder_container_>>
    /\ UNCHANGED <<customDraw, mode, inited, buttonVars, orderVars, cursorVars,
                   paint_subscribed>>

(***************************************************************************)
(* LayoutWindowControlsOverlay.                                            *)
(***************************************************************************)
\* A variant of OverlayRect that adds the 1 px margin when maximized too.
OverlayRect_AlwaysMargin(titlebar_overlay_height, view_width) ==
    LET size == caption_button_placeholder_container_.bounds
        overlay_height == IF titlebar_overlay_height = 0
                            THEN size.h + 1
                            ELSE titlebar_overlay_height
    IN  Rect(0, 0, view_width - size.w, overlay_height)

\* The rectangle before mirroring.
OverlayRect(titlebar_overlay_height, view_width) ==
    LET size == caption_button_placeholder_container_.bounds
        overlay_height == IF titlebar_overlay_height = 0
                            THEN (IF IsMaximized THEN size.h ELSE size.h + 1)
                            ELSE titlebar_overlay_height
        overlay_width == size.w
        bounding_rect_width == view_width - overlay_width
    IN  Rect(0, 0, bounding_rect_width, overlay_height)

LayoutWindowControlsOverlay ==
    /\ inited /\ ~crashed
    /\ \E titlebar_overlay_height \in OverlayHeights, view_width \in ViewWidths,
          rtl \in BOOLEAN :
          IF caption_button_placeholder_container_ = nullptr
            THEN /\ \E outcome \in UBOutcomes : crashed' = (outcome = "crash")
                 /\ nullUse' = "container"
                 /\ ret' = [op |-> "LayoutWindowControlsOverlay",
                            published |-> FALSE]
            ELSE /\ nullUse' = "none"
                 /\ UNCHANGED crashed
                 /\ ret' = [op |-> "LayoutWindowControlsOverlay",
                            published |-> TRUE,
                            titlebar_overlay_height |-> titlebar_overlay_height,
                            view_width |-> view_width, rtl |-> rtl,
                            rect |-> OverlayRect(titlebar_overlay_height, view_width),
                            overlay_rect |->
                                MirroredRect(OverlayRect(titlebar_overlay_height,
                                                         view_width),
                                             view_width, rtl)]
    /\ UNCHANGED <<customDraw, mode, inited, buttonVars, orderVars, cursorVars,
                   paint_subscribed, caption_button_placeholder_container_>>

(***************************************************************************)
(* Theme and paint-as-active changes.                                      *)
(***************************************************************************)
UpdateCaptionButtonPlaceholderContainerBackground(bg_color) ==
    IF caption_button_placeholder_container_ # nullptr
      THEN [caption_button_placeholder_container_ EXCEPT !.background = bg_color]
      ELSE caption_button_placeholder_container_

OnThemeChanged ==
    /\ inited /\ ~crashed
    /\ \E bg_color \in OverlayColors :
          caption_button_placeholder_container_' =
              UpdateCaptionButtonPlaceholderContainerBackground(bg_color)
    /\ nullUse' = "none"
    /\ ret' = [op |-> "OnThemeChanged"]
    /\ UNCHANGED <<customDraw, mode, inited, crashed, buttonVars, orderVars,
                   cursorVars, paint_subscribed>>

\* Runs as the callback Init registers, so only once it is registered.
PaintAsActiveChanged ==
    /\ inited /\ ~crashed
    /\ paint_subscribed
    /\ \E bg_color \in OverlayColors :
          caption_button_placeholder_container_' =
              UpdateCaptionButtonPlaceholderContainerBackground(bg_color)
    /\ nullUse' = "none"
    /\ ret' = [op |-> "PaintAsActiveChanged"]
    /\ UNCHANGED <<customDraw, mode, inited, crashed, buttonVars, orderVars,
                   cursorVars, paint_subscribed>>

(***************************************************************************)
(* The view's life: Init and InitButtons at any time, the callbacks of the *)
(* widget, the toolkit and the theme once Init has attached the view.      *)
(***************************************************************************)
Next ==
    \/ OpaqueFrameView_Init
    \/ InitButtonsOp
    \/ SetWindowMode
    \/ SetButtonState
    \/ NonClientHitTestOp
    \/ ResetWindowControls
    \/ OnWindowButtonOrderingChange
    \/ Layout
    \/ LayoutWindowControlsOverlay
    \/ OnThemeChanged
    \/ PaintAsActiveChanged

Spec == Init /\ [][Next]_vars

(***************************************************************************)
(* NonClientHitTest as a function of the buttons, the container and the    *)
(* point: every assignment of visibility and synthetic rectangles.         *)
(***************************************************************************)
\* Overlapping synthetic rectangles: the whole grid and its top-left cell.
HitRects == {Rect(0, 0, GridWidth, GridWidth), Rect(0, 0, 1, 1)}
HitButtons == [visible : BOOLEAN, state : {"STATE_NORMAL"}, bounds : HitRects]
HitContainers == [bounds : HitRects, background : {"none"}]

InitHitTest ==
    /\ customDraw \in BOOLEAN
    /\ mode = "Restored"
    /\ inited = TRUE
    /\ crashed = FALSE
    /\ nullUse = "none"
    /\ \/ /\ minimize_button_ = nullptr
          /\ maximize_button_ = nullptr
          /\ restore_button_ = nullptr
          /\ close_button_ = nullptr
       \/ /\ minimize_button_ \in HitButtons
          /\ maximize_button_ \in HitButtons
          /\ restore_button_ \in HitButtons
          /\ close_button_ \in HitButtons
    /\ leading_buttons_ = DefaultLeading
    /\ trailing_buttons_ = DefaultTrailing
    /\ placed_leading_button_ = FALSE
    /\ placed_trailing_button_ = FALSE
    /\ available_space_leading_x_ = 0
    /\ available_space_trailing_x_ = 0
    /\ minimum_size_for_buttons_ = 0
    /\ paint_subscribed = FALSE
    /\ caption_button_placeholder_container_ \in {nullptr} \cup HitContainers
    /\ ret = [op |-> "constructor"]

NextHitTest == NonClientHitTestOp

SpecHitTest == InitHitTest /\ [][NextHitTest]_vars

(***************************************************************************)
(* Layout as a function of the cursor fields, the window mode and the      *)
(* placeholder container.  The cursor values and the container are drawn   *)
(* from a wider set than the operations of the class produce (no code      *)
(* assigns the cursor fields, and Init makes no container for a            *)
(* custom-drawn title bar): what holds here holds of Layout for every      *)
(* value of its inputs, the ones the program reaches included.             *)
(***************************************************************************)
\* Values of available_space_trailing_x_ and minimum_size_for_buttons_: below
\* and above the border insets' width.
TrailingXs == {0, 662}
ButtonStripWidths == {0, 6, 138}
LayoutContainers ==
    [bounds : {Rect(0, 0, 0, 0), Rect(5, 5, 50, 50)}, background : {"none"}]

InitLayout ==
    /\ customDraw \in BOOLEAN
    /\ mode = "Restored"
    /\ inited = TRUE
    /\ crashed = FALSE
    /\ nullUse = "none"
    /\ caption_button_placeholder_container_ \in {nullptr} \cup LayoutContainers
    /\ minimize_button_ =
          IF caption_button_placeholder_container_ = nullptr THEN nullptr ELSE NewButton
    /\ maximize_button_ = minimize_button_
    /\ restore_button_ = minimize_button_
    /\ close_button_ = minimize_button_
    /\ leading_buttons_ = DefaultLeading
    /\ trailing_buttons_ = DefaultTrailing
    /\ placed_leading_button_ = FALSE
    /\ placed_trailing_button_ \in BOOLEAN
    /\ available_space_leading_x_ = 0
    /\ available_space_trailing_x_ \in TrailingXs
    /\ minimum_size_for_buttons_ \in ButtonStripWidths
    /\ paint_subscribed = (caption_button_placeholder_container_ # nullptr)
    /\ ret = [op |-> "constructor"]

NextLayout ==
    \/ Layout
    \/ SetWindowMode

SpecLayout == InitLayout /\ [][NextLayout]_vars

(***************************************************************************)
(* The client/window bounds conversions and the top border thickness as    *)
(* functions of the view size, the client rectangle and the window mode.   *)
(***************************************************************************)
\* width() and height() of the view: empty, smaller than the borders, larger.
ViewExtents == {0, 5, 30, 800}
\* Client rectangles: origins left of, at, inside and beyond the border.
ClientOrigins == {-10, 0, 2, 50}
ClientExtents == {0, 300}
ClientRects ==
    {Rect(x, y, w, h) : x \in ClientOrigins, y \in ClientOrigins,
                        w \in ClientExtents, h \in ClientExtents}

\* Not in the reviewed sources: the base view's client area is the whole view.
FramelessView_GetBoundsForClientView(width, height) == Rect(0, 0, width, height)

\* Not in the reviewed sources: the base view's window bounds are the client
\* bounds, an empty rectangle being given the size 1x1.
FramelessView_GetWindowBoundsForClientBounds(client_bounds) ==
    IF client_bounds.w = 0 \/ client_bounds.h = 0
      THEN [client_bounds EXCEPT !.w = 1, !.h = 1]
      ELSE client_bounds

\* A variant of GetBoundsForClientView that forgets the side borders.
GetBoundsForClientView_NoSideBorder(width, height) ==
    IF ShouldCustomDrawSystemTitlebar
      THEN LET border_thickness == FrameBorderInsets(FALSE)
               top_height == border_thickness.top
           IN  Rect(border_thickness.left, top_height, Max(0, width),
                    Max(0, height - top_height - border_thickness.bottom))
      ELSE FramelessView_GetBoundsForClientView(width, height)

GetBoundsForClientView(width, height) ==
    IF ShouldCustomDrawSystemTitlebar
      THEN LET border_thickness == FrameBorderInsets(FALSE)
               top_height == border_thickness.top
           IN  Rect(border_thickness.left, top_height,
                    Max(0, width - InsetsWidth(border_thickness)),
                    Max(0, height - top_height - border_thickness.bottom))
      ELSE FramelessView_GetBoundsForClientView(width, height)

\* A variant of GetWindowBoundsForClientBounds that does not clamp the origin.
GetWindowBoundsForClientBounds_Unclamped(client_bounds, font_height) ==
    IF ShouldCustomDrawSystemTitlebar
      THEN LET top_height == NonClientTopHeight(FALSE, font_height)
               border_insets == FrameBorderInsets(FALSE)
           IN  Rect(client_bounds.x - border_insets.left,
                    client_bounds.y - top_height,
                    client_bounds.w + InsetsWidth(border_insets),
                    client_bounds.h + top_height + border_insets.bottom)
      ELSE FramelessView_GetWindowBoundsForClientBounds(client_bounds)

GetWindowBoundsForClientBounds(client_bounds, font_height) ==
    IF ShouldCustomDrawSystemTitlebar
      THEN LET top_height == NonClientTopHeight(FALSE, font_height)
               border_insets == FrameBorderInsets(FALSE)
           IN  Rect(Max(0, client_bounds.x - border_insets.left),
                    Max(0, client_bounds.y - top_height),
                    client_bounds.w + InsetsWidth(border_insets),
                    client_bounds.h + top_height + border_insets.bottom)
      ELSE FramelessView_GetWindowBoundsForClientBounds(client_bounds)

GetBoundsForClientViewOp ==
    /\ inited /\ ~crashed
    /\ \E width \in ViewExtents, height \in ViewExtents :
          ret' = [op |-> "GetBoundsForClientView", width |-> width,
                  height |-> height,
                  val |-> GetBoundsForClientView(width, height)]
    /\ nullUse' = "none"
    /\ UNCHANGED <<customDraw, mode, inited, crashed, buttonVars, orderVars,
                   cursorVars, paint_subscribed,
                   caption_button_placeholder_container_>>

GetWindowBoundsForClientBoundsOp ==
    /\ inited /\ ~crashed
    /\ \E client_bounds \in ClientRects, font_height \in FontHeights :
          ret' = [op |-> "GetWindowBoundsForClientBounds",
                  client_bounds |-> client_bounds, font_height |-> font_height,
                  val |-> GetWindowBoundsForClientBounds(client_bounds, font_height)]
    /\ nullUse' = "none"
    /\ UNCHANGED <<customDraw, mode, inited, crashed, buttonVars, orderVars,
                   cursorVars, paint_subscribed,
                   caption_button_placeholder_container_>>

FrameTopBorderThicknessOp ==
    /\ inited /\ ~crashed
    /\ \E restored \in BOOLEAN :
          ret' = [op |-> "FrameTopBorderThickness", restored |-> restored,
                  val |-> FrameTopBorderThickness(restored)]
    /\ nullUse' = "none"
    /\ UNCHANGED <<customDraw, mode, inited, crashed, buttonVars, orderVars,
                   cursorVars, paint_subscribed,
                   caption_button_placeholder_container_>>

\* The view after Init, in either title bar case and any window mode.
InitGeometry ==
    /\ customDraw \in BOOLEAN
    /\ mode \in WindowModes
    /\ inited = TRUE
    /\ crashed = FALSE
    /\ nullUse = "none"
    /\ caption_button_placeholder_container_ =
          IF customDraw THEN nullptr ELSE NewContainer
    /\ minimize_button_ = IF customDraw THEN nullptr ELSE NewButton
    /\ maximize_button_ = minimize_button_
    /\ restore_button_ = minimize_button_
    /\ close_button_ = minimize_button_
    /\ leading_buttons_ = DefaultLeading
    /\ trailing_buttons_ = DefaultTrailing
    /\ placed_leading_button_ = FALSE
    /\ placed_trailing_button_ = FALSE
    /\ available_space_leading_x_ = 0
    /\ available_space_trailing_x_ = 0
    /\ minimum_size_for_buttons_ = 0
    /\ paint_subscribed = ~customDraw
    /\ ret = [op |-> "constructor"]

NextGeometry ==
    \/ GetBoundsForClientViewOp
    \/ GetWindowBoundsForClientBoundsOp
    \/ FrameTopBorderThicknessOp
    \/ SetWindowMode

SpecGeometry == InitGeometry /\ [][NextGeometry]_vars

(***************************************************************************)
(* Properties.                                                             *)
(***************************************************************************)
AllButtonsCreated ==
    /\ minimize_button_ # nullptr /\ maximize_button_ # nullptr
    /\ restore_button_ # nullptr /\ close_button_ # nullptr
NoButtonCreated ==
    /\ minimize_button_ = nullptr /\ maximize_button_ = nullptr
    /\ restore_button_ = nullptr /\ close_button_ = nullptr

\* The button exists, is visible and its mirrored rectangle contains the point
\* of the recorded hit test.
HitCandidate(button) ==
    /\ button # nullptr
    /\ button.visible
    /\ Contains(MirroredRect(button.bounds, ret.view_width, ret.rtl), ret.point)
\* The button's mirrored rectangle contains the point, visible or not.
RectHit(button) ==
    /\ button # nullptr
    /\ Contains(MirroredRect(button.bounds, ret.view_width, ret.rtl), ret.point)
\* The priority levels that match the recorded hit test; 5 is the base result.
MatchingLevels ==
    {5} \cup (IF HitCandidate(close_button_) THEN {1} ELSE {})
        \cup (IF HitCandidate(restore_button_) \/ HitCandidate(maximize_button_)
                THEN {2} ELSE {})
        \cup (IF HitCandidate(minimize_button_) THEN {3} ELSE {})
        \cup (IF /\ ret.wco_enabled
                 /\ caption_button_placeholder_container_ # nullptr
                 /\ Contains(MirroredRect(caption_button_placeholder_container_.bounds,
                                          ret.view_width, ret.rtl), ret.point)
                THEN {4} ELSE {})
FirstLevel == CHOOSE l \in MatchingLevels : \A k \in MatchingLevels : l <= k
LevelResult(l) ==
    CASE l = 1 -> "HTCLOSE"
      [] l = 2 -> "HTMAXBUTTON"
      [] l = 3 -> "HTMINBUTTON"
      [] l = 4 -> "HTCAPTION"
      [] l = 5 -> ret.base

\* C1: with a custom-drawn title bar NonClientHitTest returns the result of the
\* highest-priority matching level: close, then restore/maximize, then minimize,
\* then the caption overlay, then the base result.
C1_HitTestPriority ==
    (ret.op = "NonClientHitTest" /\ customDraw) => ret.val = LevelResult(FirstLevel)

\* A point inside the visible close and minimize rectangles resolved to Close.
C1_Witness ==
    /\ ret.op = "NonClientHitTest" /\ customDraw
    /\ HitCandidate(close_button_) /\ HitCandidate(minimize_button_)
    /\ HitCandidate(maximize_button_)
    /\ ret.val = "HTCLOSE"

\* C2: NonClientHitTest returns Close, MaxButton or MinButton only on account of
\* a button that exists, is visible and contains the point.
C2_OnlyVisibleButtonsHit ==
    ret.op = "NonClientHitTest" =>
        /\ ret.val = "HTCLOSE" => HitCandidate(close_button_)
        /\ ret.val = "HTMAXBUTTON" =>
              HitCandidate(restore_button_) \/ HitCandidate(maximize_button_)
        /\ ret.val = "HTMINBUTTON" => HitCandidate(minimize_button_)

\* An invisible close button whose rectangle contains the point was skipped and
\* the visible minimize button behind it was hit.
C2_Witness ==
    /\ ret.op = "NonClientHitTest" /\ customDraw
    /\ RectHit(close_button_) /\ ~close_button_.visible
    /\ RectHit(restore_button_) /\ ~restore_button_.visible
    /\ RectHit(maximize_button_) /\ ~maximize_button_.visible
    /\ HitCandidate(minimize_button_)
    /\ ret.val = "HTMINBUTTON"

ButtonVisible(button) == button # nullptr /\ button.visible
\* A layout pass has just completed.
LayoutDone == ret.op = "Layout" /\ ~crashed /\ nullUse = "none"

\* C3: after a layout pass the restore button is visible exactly when the window
\* is maximized and the maximize button exactly when it is restored.
C3_RestoreXorMaximize ==
    (inited /\ LayoutDone) =>
        /\ ButtonVisible(restore_button_) <=> IsMaximized
        /\ ButtonVisible(maximize_button_) <=> (mode = "Restored")

\* C4: FrameBorderInsets(true) is the uniform 4 px border in every mode, and
\* FrameBorderInsets(false) is zero exactly when maximized or fullscreen and the
\* 4 px border otherwise.
C4_FrameBorderInsets ==
    /\ FrameBorderInsets(TRUE) = Insets(4, 4, 4, 4)
    /\ FrameBorderInsets(FALSE) = ZeroInsets <=> mode \in {"Maximized", "Fullscreen"}
    /\ mode = "Restored" => FrameBorderInsets(FALSE) = Insets(4, 4, 4, 4)
    /\ (ret.op = "Layout" /\ ret.custom) => ret.insets = FrameBorderInsets(FALSE)

\* A layout pass in fullscreen used zero insets.
C4_Witness ==
    /\ ret.op = "Layout" /\ ret.custom
    /\ mode = "Fullscreen"
    /\ ret.insets = ZeroInsets

\* C5: ResetWindowControls puts minimize, maximize and restore in the normal
\* state and leaves the close button as it was.
C5_ResetLeavesClose ==
    [][(ret'.op = "ResetWindowControls" /\ AllButtonsCreated) =>
          /\ minimize_button_'.state = "STATE_NORMAL"
          /\ maximize_button_'.state = "STATE_NORMAL"
          /\ restore_button_'.state = "STATE_NORMAL"
          /\ close_button_' = close_button_
          /\ minimize_button_' = [minimize_button_ EXCEPT !.state = "STATE_NORMAL"]
          /\ maximize_button_' = [maximize_button_ EXCEPT !.state = "STATE_NORMAL"]
          /\ restore_button_' = [restore_button_ EXCEPT !.state = "STATE_NORMAL"]]_vars

\* All four were hovered before the reset; only close is hovered after it.
C5_Witness ==
    /\ ret.op = "ResetWindowControls" /\ nullUse = "none"
    /\ ret.before = [name \in ButtonNames |-> "STATE_HOVERED"]
    /\ close_button_.state = "STATE_HOVERED"
    /\ minimize_button_.state = "STATE_NORMAL"
    /\ maximize_button_.state = "STATE_NORMAL"
    /\ restore_button_.state = "STATE_NORMAL"

\* The overlay height the claim describes.
ExpectedOverlayHeight ==
    IF ret.titlebar_overlay_height # 0
      THEN ret.titlebar_overlay_height
      ELSE caption_button_placeholder_container_.bounds.h
             + (IF mode = "Maximized" THEN 0 ELSE 1)

\* C6: the rectangle before mirroring is (0, 0, view width minus placeholder
\* width, overlay height), the overlay height being the window's override when
\* nonzero and otherwise the placeholder height, plus 1 unless maximized; the
\* published rectangle is its mirror.
C6_OverlayRect ==
    (ret.op = "LayoutWindowControlsOverlay" /\ ret.published) =>
        /\ ret.rect = [x |-> 0, y |-> 0,
                       w |-> ret.view_width
                               - caption_button_placeholder_container_.bounds.w,
                       h |-> ExpectedOverlayHeight]
        /\ ~ret.rtl => ret.overlay_rect = ret.rect

\* View width 800, no override, maximized: the rectangle has the placeholder's
\* own height without the 1 px margin.
C6_Witness ==
    /\ ret.op = "LayoutWindowControlsOverlay" /\ ret.published
    /\ ret.view_width = 800 /\ ret.titlebar_overlay_height = 0
    /\ mode = "Maximized"
    /\ ret.rect = [x |-> 0, y |-> 0,
                   w |-> 800 - caption_button_placeholder_container_.bounds.w,
                   h |-> caption_button_placeholder_container_.bounds.h]

\* C7: the layout pass that follows an ordering change with the close button on
\* the leading side records that a leading button was placed.
C7_LayoutReflectsOrder ==
    [][(/\ ret.op = "OnWindowButtonOrderingChange"
        /\ "kClose" \in Range(leading_buttons_)
        /\ ret'.op = "Layout" /\ ~crashed' /\ nullUse' = "none")
          => placed_leading_button_']_vars

\* C8: a layout pass that directly follows a layout pass, with the same font
\* metrics, leaves the placeholder and button rectangles and the cursor as the
\* first pass left them.
C8_LayoutIdempotent ==
    [][(/\ ret.op = "Layout" /\ ret'.op = "Layout"
        /\ (ret.custom => ret'.font_height = ret.font_height))
          => /\ caption_button_placeholder_container_' =
                    caption_button_placeholder_container_
             /\ buttonVars' = buttonVars
             /\ cursorVars' = cursorVars]_vars

\* A second pass in a row over a container the first pass gave a real extent.
C8_Witness ==
    /\ ret.op = "Layout" /\ ret.custom /\ ret.pass >= 2
    /\ caption_button_placeholder_container_ # nullptr
    /\ caption_button_placeholder_container_.bounds.w > 0
    /\ caption_button_placeholder_container_.bounds.x > 0

\* C9: no operation dereferences the placeholder container while it is absent.
C9_NoUseOfAbsentContainer ==
    inited => nullUse # "container"

\* C10: after Init the four buttons exist exactly when the title bar is
\* custom-drawn, and none exists when the OS draws it.
C10_ButtonsIffCustomDrawn ==
    inited =>
        /\ customDraw => AllButtonsCreated
        /\ ~customDraw => NoButtonCreated

\* C11: with a custom-drawn title bar GetBoundsForClientView returns a
\* nonnegative extent for every view size and mode (0 when the view is smaller
\* than the borders), and GetWindowBoundsForClientBounds returns an origin
\* with x >= 0 and y >= 0 for every client rectangle.
C11_BoundsClamped ==
    /\ (ret.op = "GetBoundsForClientView" /\ customDraw) =>
          /\ ret.val.w >= 0 /\ ret.val.h >= 0
          /\ ret.width <= InsetsWidth(FrameBorderInsets(FALSE)) => ret.val.w = 0
          /\ ret.height <= FrameBorderInsets(FALSE).top
                             + FrameBorderInsets(FALSE).bottom => ret.val.h = 0
    /\ (ret.op = "GetWindowBoundsForClientBounds" /\ customDraw) =>
          /\ ret.val.x >= 0 /\ ret.val.y >= 0

\* A client rectangle left of and above the frame got the origin (0, 0).
C11_Witness ==
    /\ ret.op = "GetWindowBoundsForClientBounds" /\ customDraw
    /\ ret.client_bounds.x < 0 /\ ret.client_bounds.y < 0
    /\ ret.val.x = 0 /\ ret.val.y = 0

\* C12: every layout pass starts from a zeroed cursor (all five fields are
\* false/0 in every state, so at the start of every pass), and so the container
\* is anchored at x = 0 and its width is computed from a zero button-strip
\* width, whatever pass came before.
C12_CursorResetEachPass ==
    /\ cursorVars = <<FALSE, FALSE, 0, 0, 0>>
    /\ (ret.op = "Layout" /\ ret.custom) =>
          /\ ret.args.x = 0
          /\ ret.args.w = 0 - InsetsWidth(ret.insets)

\* A pass that directly followed another pass computed x = 0 again.
C12_Witness ==
    /\ ret.op = "Layout" /\ ret.custom /\ ret.pass >= 2 /\ ~crashed
    /\ ret.args.x = 0
    /\ ret.args.w = 0 - 8
    /\ mode = "Restored"

\* The SetBounds arguments the claim describes for the recorded layout pass.
ClaimedContainerArgs ==
    [x |-> IF placed_trailing_button_ THEN available_space_trailing_x_ ELSE 0,
     y |-> FrameBorderInsets(FALSE).top,
     w |-> minimum_size_for_buttons_
             - (FrameBorderInsets(FALSE).left + FrameBorderInsets(FALSE).right),
     h |-> NonClientTopHeight(FALSE, ret.font_height) - FrameBorderInsets(FALSE).top]

\* C13: a layout pass with a custom-drawn title bar gives the placeholder
\* container the bounds (trailing x or 0, top inset, button-strip width minus
\* the side insets, top height minus the top inset), and the base layout runs
\* in every pass.
C13_LayoutSetsContainer ==
    ret.op = "Layout" =>
        /\ ret.base_layout
        /\ ret.custom =>
              /\ caption_button_placeholder_container_ # nullptr
              /\ ret.args = ClaimedContainerArgs
              /\ caption_button_placeholder_container_.bounds =
                    SetBounds(ClaimedContainerArgs.x, ClaimedContainerArgs.y,
                              ClaimedContainerArgs.w, ClaimedContainerArgs.h)

\* C14: FrameTopBorderThickness(restored) is the top border inset plus the extra
\* thickness when the frame is effectively restored and the inset is nonzero:
\* 5 for restored = true in every mode and for restored = false in Restored
\* mode, 0 for restored = false when maximized or fullscreen.
C14_FrameTopBorderThickness ==
    /\ FrameTopBorderThickness(TRUE) = 5
    /\ mode = "Restored" => FrameTopBorderThickness(FALSE) = 5
    /\ mode \in {"Maximized", "Fullscreen"} => FrameTopBorderThickness(FALSE) = 0
    /\ \A restored \in BOOLEAN :
          FrameTopBorderThickness(restored) =
              FrameBorderInsets(restored).top
                + (IF (restored \/ mode = "Restored")
                        /\ FrameBorderInsets(restored).top # 0
                     THEN kNonClientExtraTopThickness ELSE 0)
    /\ ret.op = "FrameTopBorderThickness" =>
          ret.val = FrameTopBorderThickness(ret.restored)

\* FrameTopBorderThickness(true) returned 5 in a maximized window.
C14_Witness ==
    /\ ret.op = "FrameTopBorderThickness" /\ ret.restored
    /\ mode = "Maximized"
    /\ ret.val = 5

\* C15: the order starts as leading = empty, trailing = [Minimize, Maximize,
\* Close]; an ordering change replaces both sequences with the provider's and
\* changes no rectangle, cursor value or button state.
C15_OrderReplacedWholesale ==
    /\ leading_buttons_ = << >>
    /\ trailing_buttons_ = <<"kMinimize", "kMaximize", "kClose">>
    /\ [][ret'.op = "OnWindowButtonOrderingChange" =>
            /\ leading_buttons_' = ret'.provider_leading
            /\ trailing_buttons_' = ret'.provider_trailing
            /\ buttonVars' = buttonVars
            /\ cursorVars' = cursorVars
            /\ caption_button_placeholder_container_' =
                  caption_button_placeholder_container_]_vars

\* After the swapped order, the default order and then an order with a duplicate
\* and an omission was taken over as reported.
C15_Witness ==
    /\ ret.op = "OnWindowButtonOrderingChange"
    /\ ret.provider_leading = <<"kClose", "kClose">>
    /\ leading_buttons_ = <<"kClose", "kClose">>
    /\ trailing_buttons_ = <<"kMinimize">>
    /\ AllButtonsCreated
    /\ close_button_.state = "STATE_PRESSED"

\* C16: the placeholder container exists exactly when Init has run and the
\* custom title bar is not drawn; no later operation creates or destroys it.
C16_ContainerIffNotCustomDrawn ==
    (caption_button_placeholder_container_ # nullptr) <=> (inited /\ ~customDraw)

\* The container survived a theme change, a mode change and a layout pass.
C16_Witness ==
    /\ inited /\ ~customDraw
    /\ caption_button_placeholder_container_ # nullptr
    /\ caption_button_placeholder_container_.background = "dark"
    /\ mode = "Fullscreen"
    /\ ret.op = "Layout"

\* The client view of a view that has the size of the recorded window bounds.
RoundTripClient == GetBoundsForClientView(ret.val.w, ret.val.h)

\* C17 as stated: the client view of a window sized for client rectangle c has
\* c's width and height.
C17_RoundTripAsStated ==
    (ret.op = "GetWindowBoundsForClientBounds" /\ customDraw) =>
        /\ RoundTripClient.w = ret.client_bounds.w
        /\ RoundTripClient.h = ret.client_bounds.h

\* C17 amended: the width round-trips; the height comes back larger by the top
\* height less the top border inset.
C17_RoundTrip ==
    (ret.op = "GetWindowBoundsForClientBounds" /\ customDraw) =>
        /\ RoundTripClient.w = ret.client_bounds.w
        /\ RoundTripClient.h =
              ret.client_bounds.h + NonClientTopHeight(FALSE, ret.font_height)
                - FrameBorderInsets(FALSE).top
        /\ RoundTripClient.x = FrameBorderInsets(FALSE).left

\* A 300x300 client rectangle in a restored window came back 300 wide and
\* 322 high (top height 26 with a 20 px font, top inset 4).
C17_Witness ==
    /\ ret.op = "GetWindowBoundsForClientBounds" /\ customDraw
    /\ mode = "Restored" /\ ret.font_height = 20
    /\ ret.client_bounds.w = 300 /\ ret.client_bounds.h = 300
    /\ RoundTripClient.w = 300 /\ RoundTripClient.h = 322

\* C18: the width and the height Layout passes to the placeholder container
\* are nonnegative.
C18_ContainerExtentNonnegative ==
    (ret.op = "Layout" /\ ret.custom) =>
        /\ ret.args.w >= 0
        /\ ret.args.h >= 0

\* C19: ResetWindowControls never runs while the buttons do not exist.
C19_ResetOnlyExistingButtons ==
    inited => nullUse # "button"

====
